---- MODULE Spec2Model ----
(***************************************************************************)
(* Model of src/propellers.py: class Propellers, a vector of n propellers  *)
(* with geometry (dia, pitch), commanded speed and derived static thrust.  *)
(*                                                                         *)
(* Numbers.  The code only multiplies, divides, takes sqrt and the power   *)
(* 3.5 of its numbers; it never adds.  A real number is therefore modelled *)
(* exactly as a signed monomial                                            *)
(*      sg * 2^(two/2) * 4.392e-8^(c1/2) * 4.23e-4^(c2/2) * 39.37^(inch/2) *)
(* with sg in {-1,0,1} and the exponents counted in halves, so that sqrt   *)
(* and ^3.5 of the geometry stay representable.  Arithmetic is that of the *)
(* reals: the rounding of torch's float32 is not modelled.                 *)
(***************************************************************************)
EXTENDS Integers, Sequences, FiniteSets, TLC

VARIABLES
    prop,        \* the caller's Propellers instance (live = it exists)
    last,        \* the last call made by the caller, with its outcome
    tpc,         \* per thread: position inside set_speed
    targ,        \* per thread: the propeller_speeds argument of its call
    lock,        \* the caller-side mutex: 0 = free, else the holder
    serialized   \* TRUE when callers take the mutex around set_speed

vars == <<prop, last, tpc, targ, lock, serialized>>

(* ------------------------------ bounds -------------------------------- *)
\* largest n_propellers passed to the constructor; the lists handed to it have
\* 0 .. MaxCount+1 elements, the tensors handed to set_speed 0 .. MaxCount
MaxCount == 2
\* largest n_propellers of the instance shared by the concurrent callers
MaxConcCount == 1

Threads == {1, 2}

(* ------------------------------ numbers ------------------------------- *)
Real == [sg : {-1, 0, 1}, two : Int, c1 : Int, c2 : Int, inch : Int]

Zero == [sg |-> 0, two |-> 0, c1 |-> 0, c2 |-> 0, inch |-> 0]
One  == [sg |-> 1, two |-> 0, c1 |-> 0, c2 |-> 0, inch |-> 0]
\* sg * 2^k
Pow2(s, k) == [sg |-> s, two |-> 2 * k, c1 |-> 0, c2 |-> 0, inch |-> 0]

\* the literals of the source
INCH      == [sg |-> 1, two |-> 0, c1 |-> 0, c2 |-> 0, inch |-> 2]   \* 39.37
C_THRUST1 == [sg |-> 1, two |-> 0, c1 |-> 2, c2 |-> 0, inch |-> 0]   \* 4.392e-8
C_THRUST2 == [sg |-> 1, two |-> 0, c1 |-> 0, c2 |-> 2, inch |-> 0]   \* 4.23e-4

Mul(a, b) ==
    IF a.sg = 0 \/ b.sg = 0 THEN Zero
    ELSE [sg |-> a.sg * b.sg, two |-> a.two + b.two, c1 |-> a.c1 + b.c1,
          c2 |-> a.c2 + b.c2, inch |-> a.inch + b.inch]

\* a / b for b # 0 (the geometry is positive)
Div(a, b) ==
    IF a.sg = 0 THEN Zero
    ELSE [sg |-> a.sg * b.sg, two |-> a.two - b.two, c1 |-> a.c1 - b.c1,
          c2 |-> a.c2 - b.c2, inch |-> a.inch - b.inch]

\* torch.sqrt on a positive number with whole exponents
Sqrt(a) ==
    [sg |-> a.sg, two |-> a.two \div 2, c1 |-> a.c1 \div 2,
     c2 |-> a.c2 \div 2, inch |-> a.inch \div 2]

\* torch.pow(a, 3.5) on a positive number with whole exponents
Pow35(a) ==
    [sg |-> a.sg, two |-> (7 * a.two) \div 2, c1 |-> (7 * a.c1) \div 2,
     c2 |-> (7 * a.c2) \div 2, inch |-> (7 * a.inch) \div 2]

(* ------------------------- elementwise tensors ------------------------ *)
VScale(c, v) == [i \in 1..Len(v) |-> Mul(c, v[i])]
VMul(a, b)   == [i \in 1..Len(a) |-> Mul(a[i], b[i])]
VDiv(a, b)   == [i \in 1..Len(a) |-> Div(a[i], b[i])]
VSqrt(v)     == [i \in 1..Len(v) |-> Sqrt(v[i])]
VPow35(v)    == [i \in 1..Len(v) |-> Pow35(v[i])]

\* torch.zeros((n))
Zeros(n) == [i \in 1..n |-> Zero]

(* ------------------------------ inputs -------------------------------- *)
\* diameters and pitches in meters: 1 m and 4 m
Meters == {Pow2(1, 0), Pow2(1, 2)}
\* speeds in rotations per minute: 0, 1 and -2
Rpm == {Zero, Pow2(1, 0), Pow2(-1, 1)}

SeqsUpTo(S, k) == UNION {[1..m -> S] : m \in 0..k}

Counts     == 0..MaxCount
MeterLists == SeqsUpTo(Meters, MaxCount + 1)
SpeedVecs  == SeqsUpTo(Rpm, MaxCount)
ConcVecs   == SeqsUpTo(Rpm, MaxConcCount)

(* ------------------------------ the instance -------------------------- *)
Fields == {"n", "dia", "pitch", "speed", "thrust"}

\* no instance: the caller holds nothing
NoObject ==
    [live |-> FALSE, n |-> 0, dia |-> <<>>, pitch |-> <<>>,
     speed |-> <<>>, thrust |-> <<>>]

\* line 28: len(propeller_diameters) != n_propellers, negated
DiaShapeOk(propeller_diameters, n_propellers) ==
    Len(propeller_diameters) = n_propellers

\* line 31: len(propeller_pitchs) != n_propellers, negated
PitchShapeOk(propeller_pitchs, n_propellers) ==
    Len(propeller_pitchs) = n_propellers

\* mutant: the list is stored as given, in meters
ToInches_noConversion(list) == list

\* lines 30, 33: torch.tensor(list) * 39.37, a fresh tensor
ToInches(list) == VScale(INCH, list)

\* what the caller receives from a constructor that ran to its end
NewObject(n_propellers, propeller_diameters, propeller_pitchs) ==
    [live   |-> TRUE,
     n      |-> n_propellers,
     dia    |-> ToInches(propeller_diameters),
     pitch  |-> ToInches(propeller_pitchs),
     speed  |-> Zeros(n_propellers),
     thrust |-> Zeros(n_propellers)]

\* mutant: the pitch check is made before the diameter check
Propellers_init_pitchFirst(n_propellers, propeller_diameters, propeller_pitchs) ==
    IF ~PitchShapeOk(propeller_pitchs, n_propellers)
    THEN [err |-> "ValueError", what |-> "propeller_pitchs",
          shape |-> Len(propeller_pitchs), count |-> n_propellers,
          assigned |-> {"n"}, readPitchs |-> TRUE, self |-> NoObject]
    ELSE IF ~DiaShapeOk(propeller_diameters, n_propellers)
    THEN [err |-> "ValueError", what |-> "propeller_diameters",
          shape |-> Len(propeller_diameters), count |-> n_propellers,
          assigned |-> {"n", "pitch"}, readPitchs |-> TRUE, self |-> NoObject]
    ELSE [err |-> "none", what |-> "", shape |-> 0, count |-> n_propellers,
          assigned |-> Fields, readPitchs |-> TRUE,
          self |-> NewObject(n_propellers, propeller_diameters, propeller_pitchs)]

\* mutant: speed and thrust are initialised before the arguments are checked
Propellers_init_zerosFirst(n_propellers, propeller_diameters, propeller_pitchs) ==
    IF ~DiaShapeOk(propeller_diameters, n_propellers)
    THEN [err |-> "ValueError", what |-> "propeller_diameters",
          shape |-> Len(propeller_diameters), count |-> n_propellers,
          assigned |-> {"n", "speed", "thrust"}, readPitchs |-> FALSE,
          self |-> NoObject]
    ELSE IF ~PitchShapeOk(propeller_pitchs, n_propellers)
    THEN [err |-> "ValueError", what |-> "propeller_pitchs",
          shape |-> Len(propeller_pitchs), count |-> n_propellers,
          assigned |-> {"n", "speed", "thrust", "dia"}, readPitchs |-> TRUE,
          self |-> NoObject]
    ELSE [err |-> "none", what |-> "", shape |-> 0, count |-> n_propellers,
          assigned |-> Fields, readPitchs |-> TRUE,
          self |-> NewObject(n_propellers, propeller_diameters, propeller_pitchs)]

(* Propellers.__init__, lines 27-35.  The result tells how the call ended  *)
(* (err; what: the argument the message names; shape and count: the two    *)
(* lengths the message gives), which attributes of self had been assigned  *)
(* when it ended, whether propeller_pitchs had been read, and the instance *)
(* the caller receives (NoObject when the constructor raised).             *)
Propellers_init(n_propellers, propeller_diameters, propeller_pitchs) ==
    \* line 27 has assigned self.n
    IF ~DiaShapeOk(propeller_diameters, n_propellers)
    THEN [err |-> "ValueError", what |-> "propeller_diameters",
          shape |-> Len(propeller_diameters), count |-> n_propellers,
          assigned |-> {"n"}, readPitchs |-> FALSE, self |-> NoObject]
    \* line 30 has assigned self.dia
    ELSE IF ~PitchShapeOk(propeller_pitchs, n_propellers)
    THEN [err |-> "ValueError", what |-> "propeller_pitchs",
          shape |-> Len(propeller_pitchs), count |-> n_propellers,
          assigned |-> {"n", "dia"}, readPitchs |-> TRUE, self |-> NoObject]
    ELSE [err |-> "none", what |-> "", shape |-> 0, count |-> n_propellers,
          assigned |-> Fields, readPitchs |-> TRUE,
          self |-> NewObject(n_propellers, propeller_diameters, propeller_pitchs)]

(* ------------------------------ set_speed ----------------------------- *)
\* mutant: only a tensor longer than self.n is rejected
SpeedShapeOk_atMost(propeller_speeds, n) == Len(propeller_speeds) <= n

\* line 46: propeller_speeds.size(dim=0) != self.n, negated
SpeedShapeOk(propeller_speeds, n) == Len(propeller_speeds) = n

\* mutant: multiplied by sqrt(pitch) instead of divided
ThrustStep1_timesSqrt(speed, dia, pitch) ==
    VMul(VMul(VScale(C_THRUST1, speed), VPow35(dia)), VSqrt(pitch))

\* right-hand side of line 49
ThrustStep1(speed, dia, pitch) ==
    VDiv(VMul(VScale(C_THRUST1, speed), VPow35(dia)), VSqrt(pitch))

\* mutant: the factor self.pitch is left out
ThrustStep2_noPitch(thrust, speed, pitch) ==
    VMul(thrust, VScale(C_THRUST2, speed))

\* right-hand side of line 50
ThrustStep2(thrust, speed, pitch) ==
    VMul(thrust, VMul(VScale(C_THRUST2, speed), pitch))

\* line 48
Assign48(self, propeller_speeds) == [self EXCEPT !.speed = propeller_speeds]

\* line 49
Assign49(self) ==
    [self EXCEPT !.thrust = ThrustStep1(self.speed, self.dia, self.pitch)]

\* mutant: the result is stored into self.pitch
Assign50_intoPitch(self) ==
    [self EXCEPT !.pitch = ThrustStep2(self.thrust, self.speed, self.pitch)]

\* line 50
Assign50(self) ==
    [self EXCEPT !.thrust = ThrustStep2(self.thrust, self.speed, self.pitch)]

\* mutant: self.speed is stored before the shape is checked
set_speed_storeFirst(self, propeller_speeds) ==
    IF ~SpeedShapeOk(propeller_speeds, self.n)
    THEN [err |-> "ValueError", what |-> "speed",
          shape |-> Len(propeller_speeds), count |-> self.n,
          self |-> Assign48(self, propeller_speeds)]
    ELSE [err |-> "none", what |-> "", shape |-> 0, count |-> self.n,
          self |-> Assign50(Assign49(Assign48(self, propeller_speeds)))]

\* mutant: the speed is stored and the thrust is not recomputed
set_speed_staleThrust(self, propeller_speeds) ==
    IF ~SpeedShapeOk(propeller_speeds, self.n)
    THEN [err |-> "ValueError", what |-> "speed",
          shape |-> Len(propeller_speeds), count |-> self.n, self |-> self]
    ELSE [err |-> "none", what |-> "", shape |-> 0, count |-> self.n,
          self |-> Assign48(self, propeller_speeds)]

\* mutant: line 49 runs before line 48, on the speed of the call before
set_speed_oldSpeed(self, propeller_speeds) ==
    IF ~SpeedShapeOk(propeller_speeds, self.n)
    THEN [err |-> "ValueError", what |-> "speed",
          shape |-> Len(propeller_speeds), count |-> self.n, self |-> self]
    ELSE [err |-> "none", what |-> "", shape |-> 0, count |-> self.n,
          self |-> Assign50(Assign48(Assign49(self), propeller_speeds))]

\* Propellers.set_speed run to its end by one caller, lines 46-50
set_speed(self, propeller_speeds) ==
    IF ~SpeedShapeOk(propeller_speeds, self.n)
    THEN [err |-> "ValueError", what |-> "speed",
          shape |-> Len(propeller_speeds), count |-> self.n, self |-> self]
    ELSE [err |-> "none", what |-> "", shape |-> 0, count |-> self.n,
          self |-> Assign50(Assign49(Assign48(self, propeller_speeds)))]

(* ------------------------- one caller, whole calls -------------------- *)
NoCall ==
    [op |-> "none", err |-> "none", what |-> "", shape |-> 0, count |-> 0,
     n |-> 0, diameters |-> <<>>, pitchs |-> <<>>, speeds |-> <<>>,
     assigned |-> {}, readPitchs |-> FALSE, preSpeed |-> <<>>]

Init ==
    /\ prop = NoObject
    /\ last = NoCall
    /\ tpc = [t \in Threads |-> "idle"]
    /\ targ = [t \in Threads |-> <<>>]
    /\ lock = 0
    /\ serialized = FALSE

\* prop = Propellers(n, diameters, pitchs), the first call of a behaviour: a
\* behaviour follows one instance, and a constructor that raised leaves the
\* caller with no instance to call
Construct ==
    /\ last.op = "none"
    /\ \E n \in Counts, diameters \in MeterLists, pitchs \in MeterLists :
         \E r \in {Propellers_init(n, diameters, pitchs)} :
         /\ prop' = r.self
         /\ last' = [op |-> "__init__", err |-> r.err, what |-> r.what,
                     shape |-> r.shape, count |-> r.count,
                     n |-> n, diameters |-> diameters, pitchs |-> pitchs,
                     speeds |-> <<>>, assigned |-> r.assigned,
                     readPitchs |-> r.readPitchs, preSpeed |-> <<>>]
    /\ UNCHANGED <<tpc, targ, lock, serialized>>

\* prop.set_speed(speeds)
SetSpeed ==
    /\ prop.live
    /\ \E speeds \in SpeedVecs :
         \E r \in {set_speed(prop, speeds)} :
         /\ prop' = r.self
         /\ last' = [op |-> "set_speed", err |-> r.err, what |-> r.what,
                     shape |-> r.shape, count |-> r.count,
                     n |-> 0, diameters |-> <<>>, pitchs |-> <<>>,
                     speeds |-> speeds, assigned |-> {},
                     readPitchs |-> FALSE, preSpeed |-> prop.speed]
    /\ UNCHANGED <<tpc, targ, lock, serialized>>

Next == Construct \/ SetSpeed

Spec == Init /\ [][Next]_vars

(* ---------------- two callers, set_speed statement by statement -------- *)
\* the instances a constructor call can have produced
ConcObjects ==
    UNION {{NewObject(n, d, p) : d \in [1..n -> Meters], p \in [1..n -> Meters]} :
           n \in 1..MaxConcCount}

InitConc ==
    /\ prop \in ConcObjects
    /\ last = NoCall
    /\ tpc = [t \in Threads |-> "idle"]
    /\ targ \in [Threads -> ConcVecs]
    /\ lock = 0
    /\ serialized \in BOOLEAN

Release(t) == lock' = IF lock = t THEN 0 ELSE lock

\* the thread calls prop.set_speed(targ[t]); a serialising caller takes the
\* mutex first
Enter(t) ==
    /\ tpc[t] = "idle"
    /\ serialized => lock = 0
    /\ lock' = IF serialized THEN t ELSE lock
    /\ tpc' = [tpc EXCEPT ![t] = "l46"]
    /\ UNCHANGED <<prop, last, targ, serialized>>

\* lines 46-47
Check46(t) ==
    /\ tpc[t] = "l46"
    /\ \/ /\ SpeedShapeOk(targ[t], prop.n)
          /\ tpc' = [tpc EXCEPT ![t] = "l48"]
          /\ UNCHANGED lock
       \/ /\ ~SpeedShapeOk(targ[t], prop.n)
          /\ tpc' = [tpc EXCEPT ![t] = "raised"]
          /\ Release(t)
    /\ UNCHANGED <<prop, last, targ, serialized>>

Line48(t) ==
    /\ tpc[t] = "l48"
    /\ prop' = Assign48(prop, targ[t])
    /\ tpc' = [tpc EXCEPT ![t] = "l49"]
    /\ UNCHANGED <<last, targ, lock, serialized>>

Line49(t) ==
    /\ tpc[t] = "l49"
    /\ prop' = Assign49(prop)
    /\ tpc' = [tpc EXCEPT ![t] = "l50"]
    /\ UNCHANGED <<last, targ, lock, serialized>>

Line50(t) ==
    /\ tpc[t] = "l50"
    /\ prop' = Assign50(prop)
    /\ tpc' = [tpc EXCEPT ![t] = "returned"]
    /\ Release(t)
    /\ UNCHANGED <<last, targ, serialized>>

NextConc ==
    \E t \in Threads :
        Enter(t) \/ Check46(t) \/ Line48(t) \/ Line49(t) \/ Line50(t)

SpecConc == InitConc /\ [][NextConc]_vars

(* ============================== properties ============================ *)
\* the documented closed form of the thrust of one propeller:
\* 4.392e-8 * 4.23e-4 * speed^2 * diameter^3.5 * pitch^0.5
ClosedForm(s, d, p) ==
    Mul(Mul(Mul(Mul(C_THRUST1, C_THRUST2), Mul(s, s)), Pow35(d)), Sqrt(p))

\* the documented two steps: v1 = 4.392e-8 * speed * diameter^3.5 / sqrt(pitch),
\* thrust = v1 * (4.23e-4 * speed * pitch)
TwoStep(s, d, p) ==
    LET v1 == Div(Mul(Mul(C_THRUST1, s), Pow35(d)), Sqrt(p))
    IN  Mul(v1, Mul(Mul(C_THRUST2, s), p))

\* every thrust entry is the formula's value for the stored speed and geometry
Consistent(self) ==
    /\ Len(self.thrust) = self.n
    /\ Len(self.speed) = self.n
    /\ \A i \in 1..self.n :
         self.thrust[i] = ClosedForm(self.speed[i], self.dia[i], self.pitch[i])

NonZero(v) == \E i \in 1..Len(v) : v[i] # Zero

SetSpeedOk     == last.op = "set_speed" /\ last.err = "none"
SetSpeedRaised == last.op = "set_speed" /\ last.err = "ValueError"
InitOk         == last.op = "__init__" /\ last.err = "none"
InitRaised     == last.op = "__init__" /\ last.err = "ValueError"

(* C1: a set_speed call whose tensor length differs from the stored n      *)
(* raises ValueError about the speed and leaves speed and thrust exactly   *)
(* as they were before the call, whatever calls preceded it.               *)
C1_MismatchLeavesSpeedAndThrust ==
    [][ (last'.op = "set_speed" /\ Len(last'.speeds) # prop.n)
        => /\ last'.err = "ValueError"
           /\ last'.what = "speed"
           /\ last'.shape = Len(last'.speeds)
           /\ last'.count = prop.n
           /\ prop'.speed = prop.speed
           /\ prop'.thrust = prop.thrust ]_vars

\* a mismatched call has been rejected after an earlier call had set a
\* non-zero speed and thrust, which are still stored
C1_Witness ==
    /\ SetSpeedRaised
    /\ Len(last.speeds) # prop.n
    /\ NonZero(last.speeds)
    /\ NonZero(prop.speed)
    /\ NonZero(prop.thrust)
    /\ prop.speed = last.preSpeed

(* C2: in every state a caller can observe, the thrust is the formula's    *)
(* value for the stored speed and geometry (all zero for the initial zero  *)
(* speed), and the stored speed changes only by a set_speed call that      *)
(* succeeded, to the vector that call was given.                           *)
C2_ThrustMatchesSpeed ==
    /\ [](prop.live => Consistent(prop))
    /\ [][ (prop.live /\ prop'.speed # prop.speed)
           => (last'.op = "set_speed" /\ last'.err = "none"
               /\ prop'.speed = last'.speeds) ]_vars

\* a successful call has replaced a non-zero speed by a different non-zero one
C2_Witness ==
    /\ SetSpeedOk
    /\ \E i \in 1..prop.n :
         /\ last.preSpeed[i] # Zero
         /\ prop.speed[i] # Zero
         /\ prop.speed[i] # last.preSpeed[i]
         /\ prop.thrust[i] # Zero

(* C3: the constructor checks the diameters before the pitches: with a     *)
(* diameters mismatch it raises the error naming propeller_diameters       *)
(* whatever the pitches are, without having read them; the error naming    *)
(* propeller_pitchs is raised exactly when the diameters have the right    *)
(* length and the pitches have not.                                        *)
C3_DiametersCheckedFirst ==
    last.op = "__init__" =>
      /\ Len(last.diameters) # last.n
           => /\ last.err = "ValueError"
              /\ last.what = "propeller_diameters"
              /\ last.shape = Len(last.diameters)
              /\ last.count = last.n
              /\ ~last.readPitchs
      /\ (last.err = "ValueError" /\ last.what = "propeller_pitchs")
           <=> (Len(last.diameters) = last.n /\ Len(last.pitchs) # last.n)

\* a constructor call with both lengths wrong has been made
C3_Witness ==
    /\ last.op = "__init__"
    /\ Len(last.diameters) # last.n
    /\ Len(last.pitchs) # last.n
    /\ last.what = "propeller_diameters"

(* C4 as stated: when the constructor raises, no attribute of the instance *)
(* has been assigned and the caller has no instance.                       *)
C4_NothingAssignedOnRaise ==
    InitRaised => (last.assigned = {} /\ ~prop.live)

(* C4 as amended: when the constructor raises for a length mismatch, the   *)
(* caller receives no instance, and pitch, speed and thrust have not been  *)
(* assigned; self.n has been assigned before the diameters check, and      *)
(* self.dia before the pitches check.                                      *)
C4_NoInstanceOnRaise ==
    /\ (last.op = "__init__"
        /\ (Len(last.diameters) # last.n \/ Len(last.pitchs) # last.n))
         => InitRaised
    /\ InitRaised
         => /\ ~prop.live
            /\ prop = NoObject
            /\ last.assigned \cap {"pitch", "speed", "thrust"} = {}
            /\ "n" \in last.assigned
            /\ last.what = "propeller_diameters" => last.assigned = {"n"}
            /\ last.what = "propeller_pitchs" => last.assigned = {"n", "dia"}

\* the constructor has raised on the pitches, after storing n and dia
C4_Witness ==
    /\ InitRaised
    /\ last.what = "propeller_pitchs"
    /\ last.n > 0
    /\ last.assigned = {"n", "dia"}

C6_LengthsEqualCount ==
    prop.live =>
      /\ Len(prop.dia) = prop.n
      /\ Len(prop.pitch) = prop.n
      /\ Len(prop.speed) = prop.n
      /\ Len(prop.thrust) = prop.n

\* a shorter tensor has been rejected after a successful call
C6_Witness ==
    /\ SetSpeedRaised
    /\ prop.n >= 2
    /\ Len(last.speeds) = prop.n - 1
    /\ NonZero(prop.speed)

(* C7: once the instance exists, no call changes n, dia or pitch: a        *)
(* set_speed call, accepted or rejected, leaves them as the constructor    *)
(* set them.                                                               *)
C7_GeometryFixed ==
    [][ prop.live
        => /\ prop'.live
           /\ prop'.n = prop.n
           /\ prop'.dia = prop.dia
           /\ prop'.pitch = prop.pitch ]_vars

\* a successful call has replaced a non-zero speed (a second call at least)
C7_Witness ==
    /\ SetSpeedOk
    /\ prop.n >= 1
    /\ NonZero(last.preSpeed)
    /\ NonZero(prop.thrust)
    /\ \A i \in 1..prop.n : prop.dia[i].inch = 2 /\ prop.pitch[i].inch = 2

(* C8: a set_speed call with a tensor of length n succeeds, stores the     *)
(* tensor as speed, and sets every thrust entry to the two-step value,     *)
(* which is the closed form on the geometry in inches.                     *)
C8_ThrustFormula ==
    (last.op = "set_speed" /\ Len(last.speeds) = prop.n)
      => /\ last.err = "none"
         /\ prop.speed = last.speeds
         /\ Len(prop.thrust) = prop.n
         /\ \A i \in 1..prop.n :
              /\ prop.thrust[i] =
                   TwoStep(prop.speed[i], prop.dia[i], prop.pitch[i])
              /\ prop.thrust[i] =
                   ClosedForm(prop.speed[i], prop.dia[i], prop.pitch[i])

\* several propellers have been given different non-zero speeds
C8_Witness ==
    /\ SetSpeedOk
    /\ prop.n >= 2
    /\ prop.speed[1] # Zero /\ prop.speed[2] # Zero
    /\ prop.speed[1] # prop.speed[2]
    /\ prop.thrust[1] # prop.thrust[2]

\* the instance as the constructor left it, with the same geometry
Fresh(self) ==
    [self EXCEPT !.speed = Zeros(self.n), !.thrust = Zeros(self.n)]

(* C9: after a successful set_speed(v), calling set_speed(v) again leaves  *)
(* speed and thrust as they are, and the thrust is the one the same call   *)
(* gives on the freshly constructed instance: it does not depend on the    *)
(* calls made before.                                                      *)
C9_IdempotentHistoryFree ==
    SetSpeedOk =>
      /\ set_speed(prop, last.speeds).err = "none"
      /\ set_speed(prop, last.speeds).self.speed = prop.speed
      /\ set_speed(prop, last.speeds).self.thrust = prop.thrust
      /\ set_speed(Fresh(prop), last.speeds).self.thrust = prop.thrust

\* the same non-zero vector has been set twice in a row
C9_Witness ==
    /\ SetSpeedOk
    /\ prop.n >= 2
    /\ last.preSpeed = last.speeds
    /\ \A i \in 1..prop.n : prop.speed[i] # Zero

(* C10: when the callers serialise their set_speed calls, the thrust is    *)
(* the formula's value for the stored speed whenever no call is in         *)
(* progress; without serialisation two calls with different valid tensors  *)
(* can both return and leave a thrust that is not (C10_Witness).           *)
C10_SerializedCallsConsistent ==
    (serialized /\ lock = 0) => Consistent(prop)

\* both unserialised calls, with different valid tensors, have returned and
\* the thrust does not fit the stored speed
C10_Witness ==
    /\ ~serialized
    /\ \A t \in Threads : tpc[t] = "returned"
    /\ targ[1] # targ[2]
    /\ ~Consistent(prop)

====
